---------------------------- MODULE Spec2Model ----------------------------
(***************************************************************************)
(* A model of the LOMN retrieval prototype: the chunker and index builder  *)
(* (build_index.py), the two query entry points (generate_lomn.py and      *)
(* rag_query.py) and the training service (training_test.py).              *)
(*                                                                         *)
(* Four programs share no state at run time except the files on disk, so   *)
(* each has a specification of its own: SpecChunk (a call of chunk_text),  *)
(* SpecBuild (a run of build_index.py), SpecQuery (a run of a query        *)
(* script) and SpecTrain (the HTTP service).                               *)
(***************************************************************************)
EXTENDS Integers, Sequences, FiniteSets, TLC

VARIABLES
    \* ---- chunk_text(text, chunk_size, overlap): build_index.py 31-38
    text, chunk_size, overlap, start, chunks, ct_pc,
    \* ---- build_index.py: the document directory, the locals of
    \* load_json_files and build_index, what the run printed, the output
    \* directory (out_fs) and the output directory as the run found it (out_fs0)
    data_dir, documents, file_i, doc_i, all_chunks, metadata_list, index,
    stdout, out_fs, out_fs0, build_pc,
    \* ---- generate_lomn.py / rag_query.py: which script runs (entry), its
    \* module globals, the artifact files it has read, the exception that ended
    \* it, and the locals of retrieve
    entry, faiss_index, faiss_chunks, faiss_metadata, reads, q_err, q_pc,
    k, I, results, searched,
    \* ---- training_test.py: per POST /train, the response and the job; per
    \* path under output/, who wrote it
    resp, job, ckpt, output

chunkVars == <<text, chunk_size, overlap, start, chunks, ct_pc>>
buildVars == <<data_dir, documents, file_i, doc_i, all_chunks, metadata_list,
               index, stdout, out_fs, out_fs0, build_pc>>
queryVars == <<entry, faiss_index, faiss_chunks, faiss_metadata, reads, q_err,
               q_pc, k, I, results, searched>>
trainVars == <<resp, job, ckpt, output>>
vars == <<chunkVars, buildVars, queryVars, trainVars>>

(***************************************************************************)
(* Bounds of the model.                                                    *)
(***************************************************************************)
MaxLen == 6        \* longest text handed to chunk_text in SpecChunk
MaxWindow == 4     \* largest chunk_size handed to chunk_text in SpecChunk
MaxFiles == 2      \* most files in the document directory in SpecBuild
MaxBodyLen == 951  \* longest document body in SpecBuild
MaxChunks == 3     \* most chunks in the artifact a query script loads in SpecQuery
MaxK == 4          \* largest k handed to retrieve in SpecQuery
MaxReqs == 2       \* POST /train requests in SpecTrain
MaxCheckpoints == 2  \* checkpoints one training job writes in SpecTrain

Chars == {"a", "b"}

Min(a, b) == IF a < b THEN a ELSE b

(***************************************************************************)
(* Python's s[a:b] for 0 <= a <= b: the characters at 0-based offsets      *)
(* a .. b-1 that exist; the slice is clipped at the end of s and is empty  *)
(* when a >= len(s).                                                       *)
(***************************************************************************)
PySlice(s, a, b) == SubSeq(s, a + 1, Min(b, Len(s)))

(***************************************************************************)
(* chunk_text, build_index.py 31-38.                                       *)
(*     chunks = []; start = 0                                              *)
(*     while start < len(text):                                            *)
(*         end = start + chunk_size                                        *)
(*         chunks.append(text[start:end])                                  *)
(*         start += (chunk_size - overlap)                                 *)
(*     return chunks                                                       *)
(***************************************************************************)
ChunkGuardLe(t, st) == st <= Len(t)

ChunkGuard(t, st) == st < Len(t)

ChunkStepNoOverlap(t, cs, ov, st, chs) ==
    [start  |-> st + cs,
     chunks |-> Append(chs, PySlice(t, st, st + cs))]

ChunkStep(t, cs, ov, st, chs) ==
    LET end == st + cs
    IN  [start  |-> st + (cs - ov),
         chunks |-> Append(chs, PySlice(t, st, end))]

RECURSIVE ChunkLoop(_, _, _, _, _)
ChunkLoop(t, cs, ov, st, chs) ==
    IF ChunkGuard(t, st)
    THEN LET s == ChunkStep(t, cs, ov, st, chs)
         IN  ChunkLoop(t, cs, ov, s.start, s.chunks)
    ELSE chs

chunk_text(t, cs, ov) == ChunkLoop(t, cs, ov, 0, <<>>)

\* No call of chunk_text is being traced (the other programs' specifications).
ChunkIdle ==
    /\ text = <<>>
    /\ chunk_size = 1
    /\ overlap = 0
    /\ start = 0
    /\ chunks = <<>>
    /\ ct_pc = "idle"

\* No build is running.
BuildIdle ==
    /\ data_dir = [exists |-> FALSE, files |-> <<>>]
    /\ documents = <<>>
    /\ file_i = 0
    /\ doc_i = 0
    /\ all_chunks = <<>>
    /\ metadata_list = <<>>
    /\ index = <<>>
    /\ stdout = <<>>
    /\ build_pc = "idle"

\* The three files of the artifact, absent or holding a sequence; the output
\* directory before any build.
Absent == [exists |-> FALSE, data |-> <<>>]

NoOutput == [dir |-> FALSE, index |-> Absent, chunks |-> Absent, meta |-> Absent]

\* The output directory was never built.
DiskEmpty ==
    /\ out_fs = NoOutput
    /\ out_fs0 = NoOutput

\* No query script is running.
QueryIdle ==
    /\ entry = "none"
    /\ faiss_index = <<>>
    /\ faiss_chunks = <<>>
    /\ faiss_metadata = <<>>
    /\ reads = <<>>
    /\ q_err = ""
    /\ q_pc = "idle"
    /\ k = 0
    /\ I = <<>>
    /\ results = <<>>
    /\ searched = FALSE

\* The training service is not running.
TrainIdle ==
    /\ resp = <<>>
    /\ job = <<>>
    /\ ckpt = <<>>
    /\ output = <<>>

(***************************************************************************)
(* SpecChunk: one call of chunk_text, run a loop iteration at a time.      *)
(* The inputs are every text over Chars of at most MaxLen characters and   *)
(* every window and overlap with 0 <= overlap < chunk_size <= MaxWindow.   *)
(***************************************************************************)
Texts == UNION {[1..n -> Chars] : n \in 0..MaxLen}

InitChunk ==
    /\ BuildIdle
    /\ DiskEmpty
    /\ QueryIdle
    /\ TrainIdle
    /\ text \in Texts
    /\ chunk_size \in 1..MaxWindow
    /\ overlap \in 0..(chunk_size - 1)
    /\ start = 0
    /\ chunks = <<>>
    /\ ct_pc = "loop"

ChunkIterate ==
    /\ ct_pc = "loop"
    /\ ChunkGuard(text, start)
    /\ LET s == ChunkStep(text, chunk_size, overlap, start, chunks)
       IN  /\ start' = s.start
           /\ chunks' = s.chunks
    /\ UNCHANGED <<text, chunk_size, overlap, ct_pc>>
    /\ UNCHANGED <<buildVars, queryVars, trainVars>>

ChunkReturn ==
    /\ ct_pc = "loop"
    /\ ~ChunkGuard(text, start)
    /\ ct_pc' = "done"
    /\ UNCHANGED <<text, chunk_size, overlap, start, chunks>>
    /\ UNCHANGED <<buildVars, queryVars, trainVars>>

NextChunk == ChunkIterate \/ ChunkReturn

SpecChunk == InitChunk /\ [][NextChunk]_vars

\* The interpreter runs a sequential loop to its end: it never stops between
\* two statements.
FairSpecChunk == SpecChunk /\ WF_vars(NextChunk)

(***************************************************************************)
(* Properties of chunk_text.                                               *)
(***************************************************************************)
Max(a, b) == IF a > b THEN a ELSE b

CeilDiv(a, b) == (a + b - 1) \div b

\* Python's s[:n] and s[len(s)-n:], the first and the last n characters of s
\* (all of s when it has fewer).
FirstN(s, n) == PySlice(s, 0, n)

LastN(s, n) == SubSeq(s, Max(Len(s) - n, 0) + 1, Len(s))

\* Python's s[n:], s without its first n characters.
DropN(s, n) == SubSeq(s, n + 1, Len(s))

\* The first chunk followed by every later chunk without its first n characters.
RECURSIVE ConcatStripped(_, _, _)
ConcatStripped(chs, n, i) ==
    IF i > Len(chs) THEN <<>>
    ELSE (IF i = 1 THEN chs[1] ELSE DropN(chs[i], n)) \o ConcatStripped(chs, n, i + 1)

ChunkDone == ct_pc = "done"

\* C1: chunk_text returns 0 chunks when L = 0, 1 chunk when 0 < L <= W and
\* ceil((L-O)/(W-O)) chunks otherwise.  The code returns ceil(L/(W-O)) chunks:
\* it opens a window at every multiple of W-O below L, also when the window
\* before it already reached the end of the text.
C1_ChunkCount ==
    ChunkDone =>
        Len(chunks) = (IF Len(text) = 0 THEN 0
                       ELSE IF Len(text) <= chunk_size THEN 1
                       ELSE CeilDiv(Len(text) - overlap, chunk_size - overlap))

\* What the code does return: one chunk per multiple of W-O below L.
ChunkCountOfCode ==
    ChunkDone => Len(chunks) = CeilDiv(Len(text), chunk_size - overlap)

\* C2: for every pair of consecutive chunks, the first O characters of the
\* later chunk are the last O characters of the earlier one, the final and
\* possibly shorter chunk included.
C2_ConsecutiveOverlap ==
    ChunkDone =>
        \A i \in 1..(Len(chunks) - 1) :
            FirstN(chunks[i + 1], overlap) = LastN(chunks[i], overlap)

\* The chunks cover the text: chunk j is the window of the text at offset
\* j*(W-O), every position lies in a chunk, and the first chunk followed by the
\* later chunks without their first O characters is the text.
ChunksCover ==
    LET L    == Len(text)
        step == chunk_size - overlap
    IN  /\ \A j \in 0..(Len(chunks) - 1) :
              /\ j * step < L
              /\ chunks[j + 1] =
                    SubSeq(text, j * step + 1, j * step + Min(chunk_size, L - j * step))
        /\ \A p \in 1..L :
              \E j \in 0..(Len(chunks) - 1) :
                  j * step < p /\ p <= j * step + Len(chunks[j + 1])
        /\ ConcatStripped(chunks, overlap, 1) = text

\* C3: chunk_text terminates, and the chunks it returns cover the text from
\* start to end (ChunksCover).
C3_TerminatesAndCovers == [](ChunkDone => ChunksCover) /\ <>ChunkDone

\* Three chunks or more with a positive overlap, the last one shorter than the
\* window.
C3_Witness ==
    /\ ChunkDone
    /\ overlap > 0
    /\ Len(chunks) >= 3
    /\ Len(chunks[Len(chunks)]) < chunk_size
    /\ \E i, j \in 1..Len(text) : text[i] # text[j]

\* C10: no chunk chunk_text returns is empty, and it returns no chunk exactly
\* when the text is empty.
C10_NoEmptyChunk ==
    ChunkDone =>
        /\ \A i \in 1..Len(chunks) : chunks[i] # <<>>
        /\ (chunks = <<>>) <=> (text = <<>>)

\* A text longer than the window that ends on a window boundary: the next
\* window would start at the end of the text and be empty.
C10_Witness ==
    /\ ChunkDone
    /\ overlap > 0
    /\ Len(text) > chunk_size
    /\ Len(text) % (chunk_size - overlap) = 0
    /\ Len(chunks) >= 3

(***************************************************************************)
(* build_index.py.                                                         *)
(*                                                                         *)
(* A file of the document directory is its name's ending, whether          *)
(* json.load parses it, and the object it parses to: a function from the   *)
(* keys it has to their values.  A body is a sequence of characters.       *)
(***************************************************************************)
DefaultChunkSize == 500
DefaultOverlap == 50

\* dict.get(key, default), build_index.py 21-26
Get(obj, key, default) == IF key \in DOMAIN obj THEN obj[key] ELSE default

BodyText(seed, len) == [p \in 1..len |-> IF p % seed = 0 THEN "b" ELSE "a"]

BodyLens == {0, DefaultChunkSize - DefaultOverlap + 1, MaxBodyLen}

MetaSamples ==
    { [id |-> "d1", category |-> "IOP", diagnosis |-> "MDD", payer |-> "Aetna", seed |-> 2],
      [id |-> "d2", category |-> "PHP", diagnosis |-> "GAD", payer |-> "Cigna", seed |-> 3] }

Objects ==
    { [id |-> m.id, category |-> m.category, diagnosis |-> m.diagnosis,
       payer |-> m.payer, body |-> BodyText(m.seed, len)] :
          m \in MetaSamples, len \in BodyLens }
    \cup { [id |-> "d3", body |-> BodyText(5, MaxBodyLen)] }     \* metadata fields missing
    \cup { [id |-> "d4", category |-> "IOP"] }                   \* no body

Files ==
    { [json_name |-> TRUE, parses |-> TRUE, obj |-> o] : o \in Objects }
    \cup { [json_name |-> FALSE, parses |-> FALSE, obj |-> [id |-> "notes"]],
           [json_name |-> TRUE,  parses |-> FALSE, obj |-> [id |-> "broken"]] }

Directories ==
    { [exists |-> FALSE, files |-> <<>>] }
    \cup { [exists |-> TRUE, files |-> fs] :
              fs \in UNION {[1..n -> Files] : n \in 0..MaxFiles} }

\* model.encode, build_index.py 56: one vector per string, in order.  The
\* vector is a function of the string alone.
EmbedOne(ch) == <<Len(ch), IF ch = <<>> THEN "" ELSE ch[1]>>

Encode(strs) == [i \in 1..Len(strs) |-> EmbedOne(strs[i])]

OldOutput ==
    [dir    |-> TRUE,
     index  |-> [exists |-> TRUE, data |-> <<EmbedOne(<<"b">>)>>],
     chunks |-> [exists |-> TRUE, data |-> << <<"b">> >>],
     meta   |-> [exists |-> TRUE,
                 data |-> <<[id |-> "old", category |-> "", diagnosis |-> "", payer |-> ""]>>]]

NoChunksMsg == "ERROR: No chunks were found. Check your JSON folder."

InitBuild ==
    /\ ChunkIdle
    /\ QueryIdle
    /\ TrainIdle
    /\ data_dir \in Directories
    /\ out_fs \in {NoOutput, OldOutput}
    /\ out_fs0 = out_fs
    /\ documents = <<>>
    /\ file_i = 0
    /\ doc_i = 0
    /\ all_chunks = <<>>
    /\ metadata_list = <<>>
    /\ index = <<>>
    /\ stdout = <<>>
    /\ build_pc = "listdir"

\* load_json_files, build_index.py 15-16: os.listdir(DATA_DIR) raises
\* FileNotFoundError when the directory is missing; nothing catches it.
ListDir ==
    /\ build_pc = "listdir"
    /\ IF data_dir.exists
       THEN /\ build_pc' = "load"
            /\ file_i' = 1
            /\ stdout' = stdout
       ELSE /\ build_pc' = "crashed"
            /\ file_i' = file_i
            /\ stdout' = Append(stdout, "FileNotFoundError")
    /\ UNCHANGED <<data_dir, documents, doc_i, all_chunks, metadata_list, index,
                   out_fs, out_fs0>>
    /\ UNCHANGED <<chunkVars, queryVars, trainVars>>

\* build_index.py 22-27
MetaOf(obj) ==
    [id        |-> Get(obj, "id", ""),
     category  |-> Get(obj, "category", ""),
     diagnosis |-> Get(obj, "diagnosis", ""),
     payer     |-> Get(obj, "payer", "")]

\* load_json_files, build_index.py 16-29: one file of the listing.  A name not
\* ending in .json is skipped; json.load raises on a file it cannot parse.
LoadFile ==
    /\ build_pc = "load"
    /\ file_i <= Len(data_dir.files)
    /\ LET f == data_dir.files[file_i]
       IN  IF ~f.json_name
           THEN /\ file_i' = file_i + 1
                /\ UNCHANGED <<documents, build_pc, stdout>>
           ELSE IF ~f.parses
           THEN /\ build_pc' = "crashed"
                /\ stdout' = Append(stdout, "JSONDecodeError")
                /\ UNCHANGED <<documents, file_i>>
           ELSE /\ documents' = Append(documents,
                                       [body |-> Get(f.obj, "body", <<>>),
                                        meta |-> MetaOf(f.obj)])
                /\ file_i' = file_i + 1
                /\ UNCHANGED <<build_pc, stdout>>
    /\ UNCHANGED <<data_dir, doc_i, all_chunks, metadata_list, index, out_fs, out_fs0>>
    /\ UNCHANGED <<chunkVars, queryVars, trainVars>>

\* build_index.py 29, 41-43: load_json_files returns, the lists start empty.
LoadReturn ==
    /\ build_pc = "load"
    /\ file_i > Len(data_dir.files)
    /\ build_pc' = "chunk"
    /\ doc_i' = 1
    /\ UNCHANGED <<data_dir, documents, file_i, all_chunks, metadata_list, index,
                   stdout, out_fs, out_fs0>>
    /\ UNCHANGED <<chunkVars, queryVars, trainVars>>

\* build_index.py 47-49: the chunks of one document join all_chunks, and the
\* document's metadata joins metadata_list once per chunk.
ExtendChunksFront(acc, chs) == chs \o acc

ExtendChunks(acc, chs) == acc \o chs

ExtendMetaOnce(acc, meta, chs) == Append(acc, meta)

ExtendMeta(acc, meta, chs) == acc \o [i \in 1..Len(chs) |-> meta]

\* build_index.py 45-49: one document of the loop.
ChunkDoc ==
    /\ build_pc = "chunk"
    /\ doc_i <= Len(documents)
    /\ LET d   == documents[doc_i]
           chs == chunk_text(d.body, DefaultChunkSize, DefaultOverlap)
       IN  /\ all_chunks' = ExtendChunks(all_chunks, chs)
           /\ metadata_list' = ExtendMeta(metadata_list, d.meta, chs)
    /\ doc_i' = doc_i + 1
    /\ UNCHANGED <<data_dir, documents, file_i, index, stdout, out_fs, out_fs0, build_pc>>
    /\ UNCHANGED <<chunkVars, queryVars, trainVars>>

\* build_index.py 51-61: with no chunk the run prints the error and returns;
\* otherwise the chunks are embedded and the vectors added to a new index.
CheckAndEmbed ==
    /\ build_pc = "chunk"
    /\ doc_i > Len(documents)
    /\ IF all_chunks = <<>>
       THEN /\ stdout' = Append(stdout, NoChunksMsg)
            /\ build_pc' = "returned"
            /\ index' = index
       ELSE /\ stdout' = Append(stdout, "Embedding chunks...")
            /\ index' = Encode(all_chunks)
            /\ build_pc' = "makedirs"
    /\ UNCHANGED <<data_dir, documents, file_i, doc_i, all_chunks, metadata_list,
                   out_fs, out_fs0>>
    /\ UNCHANGED <<chunkVars, queryVars, trainVars>>

\* build_index.py 64: os.makedirs(OUTPUT_DIR, exist_ok=True)
MakeDirs ==
    /\ build_pc = "makedirs"
    /\ out_fs' = [out_fs EXCEPT !.dir = TRUE]
    /\ build_pc' = "write_index"
    /\ UNCHANGED <<data_dir, documents, file_i, doc_i, all_chunks, metadata_list,
                   index, stdout, out_fs0>>
    /\ UNCHANGED <<chunkVars, queryVars, trainVars>>

\* build_index.py 65: faiss.write_index
WriteIndex ==
    /\ build_pc = "write_index"
    /\ out_fs' = [out_fs EXCEPT !.index = [exists |-> TRUE, data |-> index]]
    /\ build_pc' = "save_chunks"
    /\ UNCHANGED <<data_dir, documents, file_i, doc_i, all_chunks, metadata_list,
                   index, stdout, out_fs0>>
    /\ UNCHANGED <<chunkVars, queryVars, trainVars>>

\* build_index.py 66: np.save(chunks.npy, np.array(all_chunks))
SaveChunks ==
    /\ build_pc = "save_chunks"
    /\ out_fs' = [out_fs EXCEPT !.chunks = [exists |-> TRUE, data |-> all_chunks]]
    /\ build_pc' = "dump_meta"
    /\ UNCHANGED <<data_dir, documents, file_i, doc_i, all_chunks, metadata_list,
                   index, stdout, out_fs0>>
    /\ UNCHANGED <<chunkVars, queryVars, trainVars>>

\* build_index.py 67-70: json.dump(metadata_list), then the success message.
DumpMetadata ==
    /\ build_pc = "dump_meta"
    /\ out_fs' = [out_fs EXCEPT !.meta = [exists |-> TRUE, data |-> metadata_list]]
    /\ stdout' = Append(stdout, "FAISS index built successfully!")
    /\ build_pc' = "built"
    /\ UNCHANGED <<data_dir, documents, file_i, doc_i, all_chunks, metadata_list,
                   index, out_fs0>>
    /\ UNCHANGED <<chunkVars, queryVars, trainVars>>

NextBuild ==
    \/ ListDir
    \/ LoadFile
    \/ LoadReturn
    \/ ChunkDoc
    \/ CheckAndEmbed
    \/ MakeDirs
    \/ WriteIndex
    \/ SaveChunks
    \/ DumpMetadata

SpecBuild == InitBuild /\ [][NextBuild]_vars

(***************************************************************************)
(* Properties of build_index.py.                                           *)
(***************************************************************************)
BuildWriting == build_pc \in {"makedirs", "write_index", "save_chunks", "dump_meta", "built"}

\* C4: from the write step of a build on, the number of vectors in the index,
\* the number of chunk texts and the number of metadata records are equal, and
\* after a successful build so are the three files' lengths.
C4_AlignedLengths ==
    /\ BuildWriting =>
          /\ Len(index) = Len(all_chunks)
          /\ Len(metadata_list) = Len(all_chunks)
    /\ build_pc = "built" =>
          /\ out_fs.index.exists /\ out_fs.chunks.exists /\ out_fs.meta.exists
          /\ Len(out_fs.index.data) = Len(out_fs.chunks.data)
          /\ Len(out_fs.meta.data) = Len(out_fs.chunks.data)

\* A successful build of two documents with different numbers of chunks, over
\* an older artifact.
C4_Witness ==
    /\ build_pc = "built"
    /\ out_fs0 = OldOutput
    /\ Len(documents) = 2
    /\ Len(chunk_text(documents[1].body, DefaultChunkSize, DefaultOverlap))
         # Len(chunk_text(documents[2].body, DefaultChunkSize, DefaultOverlap))
    /\ Len(out_fs.chunks.data) >= 4

BuildEnded == build_pc \in {"built", "returned", "crashed"}

\* The document directory yields no chunk: it is missing, or none of its files
\* is a .json file that parses to a document with a non-empty body.
ZeroChunkDir ==
    \/ ~data_dir.exists
    \/ \A i \in 1..Len(data_dir.files) :
          LET f == data_dir.files[i]
          IN  \/ ~f.json_name
              \/ ~f.parses
              \/ Get(f.obj, "body", <<>>) = <<>>

Printed(msg) == \E i \in 1..Len(stdout) : stdout[i] = msg

\* C5: when the document directory yields zero chunks, build_index reports
\* "no chunks found" and writes nothing: the output directory and the three
\* artifact files are as the run found them.
C5_NoChunksNoWrite ==
    (BuildEnded /\ ZeroChunkDir) =>
        /\ Printed(NoChunksMsg)
        /\ out_fs = out_fs0

\* The write half of C5, which the code keeps: a run over a directory that
\* yields zero chunks never changes the output directory.
NoChunksWritesNothing == ZeroChunkDir => out_fs = out_fs0

\* The places of the artifact, in order: <<d, j>> for the j-th chunk of the
\* d-th loaded document.
RECURSIVE Origins(_, _)
Origins(docs, d) ==
    IF d > Len(docs) THEN <<>>
    ELSE [j \in 1..Len(chunk_text(docs[d].body, DefaultChunkSize, DefaultOverlap))
             |-> <<d, j>>]
         \o Origins(docs, d + 1)

\* The documents of a listing in load order: the .json files that parse.
RECURSIVE LoadedObjects(_, _)
LoadedObjects(files, i) ==
    IF i > Len(files) THEN <<>>
    ELSE (IF files[i].json_name /\ files[i].parses THEN <<files[i].obj>> ELSE <<>>)
         \o LoadedObjects(files, i + 1)

\* C9: in the artifact a build writes, the metadata at each position is the
\* {id, category, diagnosis, payer} record of the document the chunk at that
\* position was cut from; the chunks are grouped by document in load order
\* and, within a document, in chunk_text's order.
C9_MetadataAligned ==
    build_pc = "built" =>
        LET objs == LoadedObjects(data_dir.files, 1)
            docs == [d \in 1..Len(objs) |-> [body |-> Get(objs[d], "body", <<>>)]]
            orig == Origins(docs, 1)
        IN  /\ Len(out_fs.chunks.data) = Len(orig)
            /\ Len(out_fs.meta.data) = Len(orig)
            /\ \A i \in 1..Len(orig) :
                  LET d == orig[i][1]
                      j == orig[i][2]
                  IN  /\ out_fs.chunks.data[i] =
                            chunk_text(docs[d].body, DefaultChunkSize, DefaultOverlap)[j]
                      /\ out_fs.meta.data[i].id = Get(objs[d], "id", "")
                      /\ out_fs.meta.data[i].category = Get(objs[d], "category", "")
                      /\ out_fs.meta.data[i].diagnosis = Get(objs[d], "diagnosis", "")
                      /\ out_fs.meta.data[i].payer = Get(objs[d], "payer", "")
                      /\ DOMAIN out_fs.meta.data[i] = {"id", "category", "diagnosis", "payer"}

\* A build of two different documents with several chunks each, between files
\* the loader skips.
C9_Witness ==
    /\ build_pc = "built"
    /\ Len(documents) = 2
    /\ documents[1].meta.id # documents[2].meta.id
    /\ documents[1].body # documents[2].body
    /\ Len(out_fs.chunks.data) >= 5
    /\ out_fs.meta.data[1] # out_fs.meta.data[Len(out_fs.meta.data)]

(***************************************************************************)
(* generate_lomn.py and rag_query.py.  INDEX_DIR is the builder's          *)
(* OUTPUT_DIR, ./faiss_index: the scripts read out_fs.                     *)
(***************************************************************************)
MissingIndexMsg == "FAISS index or files missing. Run build_index.py first."

\* An artifact as a build leaves it, with n chunks of two documents.
BuiltOutput(n) ==
    LET chs  == [i \in 1..n |-> BodyText(2, i)]
        d1   == [id |-> "d1", category |-> "IOP", diagnosis |-> "MDD", payer |-> "Aetna"]
        d2   == [id |-> "d2", category |-> "PHP", diagnosis |-> "GAD", payer |-> "Cigna"]
    IN  [dir    |-> TRUE,
         index  |-> [exists |-> TRUE, data |-> Encode(chs)],
         chunks |-> [exists |-> TRUE, data |-> chs],
         meta   |-> [exists |-> TRUE, data |-> [i \in 1..n |-> IF i = 1 THEN d1 ELSE d2]]]

\* The artifact with some of its files deleted.
Without(out, gone) ==
    [dir    |-> out.dir,
     index  |-> IF "index.faiss" \in gone THEN Absent ELSE out.index,
     chunks |-> IF "chunks.npy" \in gone THEN Absent ELSE out.chunks,
     meta   |-> IF "metadata.json" \in gone THEN Absent ELSE out.meta]

ArtifactFiles == {"index.faiss", "chunks.npy", "metadata.json"}

IndexDirs ==
    {NoOutput}
    \cup { Without(BuiltOutput(n), gone) : n \in 1..MaxChunks, gone \in SUBSET ArtifactFiles }

InitQuery ==
    /\ ChunkIdle
    /\ BuildIdle
    /\ TrainIdle
    /\ out_fs \in IndexDirs
    /\ out_fs0 = out_fs
    /\ entry \in {"generate_lomn", "rag_query"}
    /\ faiss_index = <<>>
    /\ faiss_chunks = <<>>
    /\ faiss_metadata = <<>>
    /\ reads = <<>>
    /\ q_err = ""
    /\ q_pc = "import"
    /\ k = 0
    /\ I = <<>>
    /\ results = <<>>
    /\ searched = FALSE

\* generate_lomn.py 20: os.path.exists of the three paths
AllExist(out) == out.index.exists /\ out.chunks.exists /\ out.meta.exists

\* generate_lomn.py 15-21, 32-33: load_index checks the three paths and raises
\* FileNotFoundError with its own message when one is missing.
\* rag_query.py 9-11 has no such check: it goes straight to faiss.read_index.
LoadIndexCheck ==
    /\ q_pc = "import"
    /\ IF entry = "generate_lomn" /\ ~AllExist(out_fs)
       THEN /\ q_pc' = "crashed"
            /\ q_err' = MissingIndexMsg
       ELSE /\ q_pc' = "read_index"
            /\ q_err' = q_err
    /\ UNCHANGED <<entry, faiss_index, faiss_chunks, faiss_metadata, reads, k, I,
                   results, searched>>
    /\ UNCHANGED <<chunkVars, buildVars, trainVars>>

\* generate_lomn.py 23, rag_query.py 11: faiss.read_index raises its own
\* error on a file it cannot open.
ReadIndex ==
    /\ q_pc = "read_index"
    /\ IF out_fs.index.exists
       THEN /\ faiss_index' = out_fs.index.data
            /\ reads' = Append(reads, "index.faiss")
            /\ q_pc' = "read_chunks"
            /\ q_err' = q_err
       ELSE /\ q_pc' = "crashed"
            /\ q_err' = "RuntimeError: could not open index.faiss for reading"
            /\ UNCHANGED <<faiss_index, reads>>
    /\ UNCHANGED <<entry, faiss_chunks, faiss_metadata, k, I, results, searched>>
    /\ UNCHANGED <<chunkVars, buildVars, trainVars>>

\* generate_lomn.py 24, rag_query.py 12: np.load
ReadChunks ==
    /\ q_pc = "read_chunks"
    /\ IF out_fs.chunks.exists
       THEN /\ faiss_chunks' = out_fs.chunks.data
            /\ reads' = Append(reads, "chunks.npy")
            /\ q_pc' = "read_meta"
            /\ q_err' = q_err
       ELSE /\ q_pc' = "crashed"
            /\ q_err' = "FileNotFoundError: chunks.npy"
            /\ UNCHANGED <<faiss_chunks, reads>>
    /\ UNCHANGED <<entry, faiss_index, faiss_metadata, k, I, results, searched>>
    /\ UNCHANGED <<chunkVars, buildVars, trainVars>>

\* generate_lomn.py 25-28, rag_query.py 13: json.load(open(metadata.json))
ReadMetadata ==
    /\ q_pc = "read_meta"
    /\ IF out_fs.meta.exists
       THEN /\ faiss_metadata' = out_fs.meta.data
            /\ reads' = Append(reads, "metadata.json")
            /\ q_pc' = "ready"
            /\ q_err' = q_err
       ELSE /\ q_pc' = "crashed"
            /\ q_err' = "FileNotFoundError: metadata.json"
            /\ UNCHANGED <<faiss_metadata, reads>>
    /\ UNCHANGED <<entry, faiss_index, faiss_chunks, k, I, results, searched>>
    /\ UNCHANGED <<chunkVars, buildVars, trainVars>>

\* faiss IndexFlatL2.search(query_vec, kk) over an index of n vectors: the
\* labels of the nearest vectors, nearest first, each at most once, and -1 in
\* the places past the n-th.  Which vectors are nearest depends on the query.
SearchLabels(n, kk) ==
    { lab \in [1..kk -> (0..(n - 1)) \cup {-1}] :
        /\ \A i \in 1..kk : (lab[i] = -1) <=> (i > n)
        /\ \A i, j \in 1..kk : (i # j /\ lab[i] # -1) => lab[i] # lab[j] }

\* Python's seq[idx]: a negative idx counts from the end.
PyIndex(seq, idx) == IF idx >= 0 THEN seq[idx + 1] ELSE seq[Len(seq) + idx + 1]

\* generate_lomn.py 42-50, rag_query.py 18-24: one result per label.
ResultsOf(labels, chs, metas) ==
    [i \in 1..Len(labels) |->
        [text |-> PyIndex(chs, labels[i]), metadata |-> PyIndex(metas, labels[i])]]

\* generate_lomn.py 39-50, rag_query.py 15-24: retrieve(query, k)
Retrieve ==
    /\ q_pc = "ready"
    /\ \E kk \in 1..MaxK :
          \E labels \in SearchLabels(Len(faiss_index), kk) :
              /\ k' = kk
              /\ I' = labels
              /\ results' = ResultsOf(labels, faiss_chunks, faiss_metadata)
    /\ searched' = TRUE
    /\ q_pc' = "retrieved"
    /\ UNCHANGED <<entry, faiss_index, faiss_chunks, faiss_metadata, reads, q_err>>
    /\ UNCHANGED <<chunkVars, buildVars, trainVars>>

\* generate_lomn.py 85-93, 107-115: the prompt goes to the language model and
\* the letter and the evidence are printed; an error of the model call is not
\* caught.  rag_query.py 31-35: the results are printed.
Respond ==
    /\ q_pc = "retrieved"
    /\ \/ /\ q_pc' = "ready"
          /\ q_err' = q_err
       \/ /\ entry = "generate_lomn"
          /\ q_pc' = "crashed"
          /\ q_err' = "generation backend error"
    /\ UNCHANGED <<entry, faiss_index, faiss_chunks, faiss_metadata, reads, k, I,
                   results, searched>>
    /\ UNCHANGED <<chunkVars, buildVars, trainVars>>

\* generate_lomn.py 103-105: q, quit or exit ends the loop.
Quit ==
    /\ q_pc = "ready"
    /\ entry = "generate_lomn"
    /\ q_pc' = "exited"
    /\ UNCHANGED <<entry, faiss_index, faiss_chunks, faiss_metadata, reads, q_err,
                   k, I, results, searched>>
    /\ UNCHANGED <<chunkVars, buildVars, trainVars>>

NextQuery ==
    \/ LoadIndexCheck
    \/ ReadIndex
    \/ ReadChunks
    \/ ReadMetadata
    \/ Retrieve
    \/ Respond
    \/ Quit

SpecQuery == InitQuery /\ [][NextQuery]_vars

(***************************************************************************)
(* Properties of the query scripts.                                        *)
(***************************************************************************)
\* C6: in both query scripts, when one of the three artifact files is absent
\* the script fails with the "missing index, run the build step first" error,
\* before it reads any artifact file and before any vector search.
C6_MissingIndexError ==
    ~AllExist(out_fs) =>
        /\ reads = <<>>
        /\ ~searched
        /\ q_pc \in {"import", "read_index", "crashed"}
        /\ q_pc = "crashed" => q_err = MissingIndexMsg

\* What generate_lomn.py does, and rag_query.py does not.
MissingIndexInGenerateLomn == entry = "generate_lomn" => C6_MissingIndexError

\* C7: when retrieve is called with k greater than the number N of indexed
\* chunks, it returns exactly N items, each indexed chunk once.
C7_ReturnsAllAvailable ==
    (q_pc = "retrieved" /\ k > Len(faiss_chunks)) =>
        /\ Len(results) = Len(faiss_chunks)
        /\ \A c \in 1..Len(faiss_chunks) :
              Cardinality({i \in 1..Len(results) : results[i].text = faiss_chunks[c]}) = 1

(***************************************************************************)
(* training_test.py: the training service.                                 *)
(*                                                                         *)
(* resp[r] is the response to the r-th POST /train ("" while it has not    *)
(* been answered), job[r] the state of the train_model call it scheduled,  *)
(* ckpt[r] the number of checkpoints that call has written, and output[p]  *)
(* the calls that have written path p of output/: path c >= 1 is the c-th  *)
(* checkpoint directory and path 0 is output/lomn_classifier.              *)
(***************************************************************************)
Reqs == 1..MaxReqs

Paths == 0..MaxCheckpoints

StartedMsg == "LOMN model training started"

JobRunning(r) == job[r] \in {"setup", "training", "saved"}

InitTrain ==
    /\ ChunkIdle
    /\ BuildIdle
    /\ DiskEmpty
    /\ QueryIdle
    /\ resp = [r \in Reqs |-> ""]
    /\ job = [r \in Reqs |-> "none"]
    /\ ckpt = [r \in Reqs |-> 0]
    /\ output = [p \in Paths |-> {}]

\* A handler that refuses a request while a job is active.
TriggerExclusive(r) ==
    /\ resp[r] = ""
    /\ IF \E q \in Reqs : job[q] = "scheduled" \/ JobRunning(q)
       THEN /\ resp' = [resp EXCEPT ![r] = "training already in progress"]
            /\ job' = job
       ELSE /\ resp' = [resp EXCEPT ![r] = StartedMsg]
            /\ job' = [job EXCEPT ![r] = "scheduled"]
    /\ UNCHANGED <<ckpt, output>>
    /\ UNCHANGED <<chunkVars, buildVars, queryVars>>

\* training_test.py 126-136: the handler adds train_model to the request's
\* background tasks and returns the acknowledgment; it looks at no other job.
trigger_training(r) ==
    /\ resp[r] = ""
    /\ job' = [job EXCEPT ![r] = "scheduled"]
    /\ resp' = [resp EXCEPT ![r] = StartedMsg]
    /\ UNCHANGED <<ckpt, output>>
    /\ UNCHANGED <<chunkVars, buildVars, queryVars>>

\* training_test.py 135, 27, 54-116: the background task starts once the
\* response is out, each request's task on its own: the data is loaded and
\* tokenized, the model and the trainer are set up.
StartJob(r) ==
    /\ job[r] = "scheduled"
    /\ resp[r] # ""
    /\ job' = [job EXCEPT ![r] = "setup"]
    /\ UNCHANGED <<resp, ckpt, output>>
    /\ UNCHANGED <<chunkVars, buildVars, queryVars>>

\* training_test.py 119: trainer.train() starts.
StartTraining(r) ==
    /\ job[r] = "setup"
    /\ job' = [job EXCEPT ![r] = "training"]
    /\ UNCHANGED <<resp, ckpt, output>>
    /\ UNCHANGED <<chunkVars, buildVars, queryVars>>

\* training_test.py 92, 99, 119: every save_steps steps the trainer writes the
\* next checkpoint directory under output/.
SaveCheckpoint(r) ==
    /\ job[r] = "training"
    /\ ckpt[r] < MaxCheckpoints
    /\ ckpt' = [ckpt EXCEPT ![r] = ckpt[r] + 1]
    /\ output' = [output EXCEPT ![ckpt[r] + 1] = output[ckpt[r] + 1] \cup {r}]
    /\ UNCHANGED <<resp, job>>
    /\ UNCHANGED <<chunkVars, buildVars, queryVars>>

\* training_test.py 122: trainer.save_model("output/lomn_classifier")
SaveModel(r) ==
    /\ job[r] = "training"
    /\ output' = [output EXCEPT ![0] = output[0] \cup {r}]
    /\ job' = [job EXCEPT ![r] = "saved"]
    /\ UNCHANGED <<resp, ckpt>>
    /\ UNCHANGED <<chunkVars, buildVars, queryVars>>

\* training_test.py 123: the completion message, and train_model returns.
FinishJob(r) ==
    /\ job[r] = "saved"
    /\ job' = [job EXCEPT ![r] = "done"]
    /\ UNCHANGED <<resp, ckpt, output>>
    /\ UNCHANGED <<chunkVars, buildVars, queryVars>>

\* training_test.py 59-122: any step of train_model may raise (a missing data
\* file, a failed download, a full disk).  Nothing catches it and nothing
\* reports it to the request, which was answered before the job started.
FailJob(r) ==
    /\ JobRunning(r)
    /\ job' = [job EXCEPT ![r] = "failed"]
    /\ UNCHANGED <<resp, ckpt, output>>
    /\ UNCHANGED <<chunkVars, buildVars, queryVars>>

NextTrain ==
    \E r \in Reqs :
        \/ trigger_training(r)
        \/ StartJob(r)
        \/ StartTraining(r)
        \/ SaveCheckpoint(r)
        \/ SaveModel(r)
        \/ FinishJob(r)
        \/ FailJob(r)

SpecTrain == InitTrain /\ [][NextTrain]_vars

(***************************************************************************)
(* Properties of the training service.                                     *)
(***************************************************************************)
\* C8: the service has no mutual-exclusion guard, and a POST /train is
\* answered without waiting for its job: every request that was answered got
\* the acknowledgment and had its job scheduled, whatever the other jobs were
\* doing; a job runs, ends or fails only after its request was answered, and
\* the answer stays the acknowledgment whatever the job's outcome.  (That two
\* jobs then run at once and write the same paths of output/ is C8_Witness.)
C8_NoMutualExclusion ==
    \A r \in Reqs :
        /\ resp[r] # "" => (resp[r] = StartedMsg /\ job[r] # "none")
        /\ job[r] # "none" => resp[r] = StartedMsg
        /\ job[r] \in {"none", "scheduled"} => ckpt[r] = 0

\* Two train_model calls running at the same time, each having written the
\* same checkpoint directories and output/lomn_classifier.
C8_Witness ==
    \E r1, r2 \in Reqs :
        /\ r1 # r2
        /\ job[r1] = "saved" /\ job[r2] = "saved"
        /\ ckpt[r1] >= 1 /\ ckpt[r2] >= 1
        /\ {r1, r2} \subseteq output[1]
        /\ {r1, r2} \subseteq output[0]
        /\ resp[r1] = StartedMsg /\ resp[r2] = StartedMsg

=============================================================================
